---- MODULE Spec2Model ----
(***************************************************************************)
(* Model of scripts/fetch-model-info.py: the Config Fetcher                *)
(* (fetch_huggingface_config), the Hub API Client (fetch_hf_hub_api), the  *)
(* Context Extractor (extract_context_window), the Local Model Scanner     *)
(* (find_lm_studio_models) and the Command Dispatcher (main).              *)
(*                                                                         *)
(* JSON values are tagged records; a JSON object (a Python dict) is a      *)
(* function from its keys to JSON values, so that "key in config" is       *)
(* key \in DOMAIN config and config.get(key) is a lookup with a default.   *)
(* The fetchers are declared to return a dict and the extractor to take   *)
(* one: remote and local documents are JSON objects with arbitrary string  *)
(* keys, and the tags of a hub document are a list of strings.             *)
(***************************************************************************)
EXTENDS Integers, Sequences, FiniteSets, TLC

VARIABLES
    argv,            \* sys.argv[1:], the command and its arguments
    pc,              \* position of the process in main and its callees
    out,             \* what was printed to standard output, in order
    exitCode,        \* <<>> while the process runs, then <<its exit status>>
    started,         \* the sources main has called so far, in order
    extractorCalls,  \* number of calls of extract_context_window by main
    urlIdx,          \* fetch_huggingface_config: index of the loop over urls
    attempts,        \* [url, outcome] of each request of the call of
                     \* fetch_huggingface_config, until main has taken its result
    config,          \* main: config (also the extractor's argument)
    fetchStatus,     \* "none", or whether the fetcher got a document: "ok", "failed"
    hub_info,        \* main: info / hub_info
    hubRequests,     \* number of requests fetch_hf_hub_api made
    hubStatus,       \* "none", or whether the client got a document: "ok", "failed"
    context_info,    \* main: context_info (the extractor's result)
    reextracted,     \* the extractor applied to its own result
    baseIdx,         \* find_lm_studio_models: index into lm_studio_paths
    curPub,          \* find_lm_studio_models: publisher_dir.name
    pubsSeen,        \* names the running base_path.iterdir() has yielded
    modelsSeen,      \* names the running publisher_dir.iterdir() has yielded
    models,          \* find_lm_studio_models: models
    budget,          \* directory entries the file system may still yield
    visited          \* the model-level entries the scan met, in order

vars == <<argv, pc, out, exitCode, started, extractorCalls, urlIdx, attempts,
          config, fetchStatus, hub_info, hubRequests, hubStatus, context_info,
          reextracted, baseIdx, curPub, pubsSeen, modelsSeen, models, budget,
          visited>>

(***************************************************************************)
(* Bounds of the model.                                                    *)
(***************************************************************************)
\* Integer values of a configuration field are drawn from 1..MaxVal.
MaxVal == 2
\* Directory entries the iterdir() calls of one scan yield in total, when
\* the scan is run on its own.
MaxEntries == 4
\* The same, when the scan runs inside main.
MaxEntriesMain == 2

(***************************************************************************)
(* JSON values.                                                            *)
(***************************************************************************)
JNull == [t |-> "null"]
JInt(n) == [t |-> "int", v |-> n]
JStr(s) == [t |-> "str", s |-> s]
JList(l) == [t |-> "list", l |-> l]
JObject(o) == [t |-> "object", o |-> o]

\* A key that a configuration does not hold (used only to enumerate inputs).
Absent == [t |-> "absent"]

\* dict.get(key, default)
Get(d, key, default) == IF key \in DOMAIN d THEN d[key] ELSE default

\* The dict with the keys of f whose value is not Absent.
Present(f) == [k \in {x \in DOMAIN f : f[x] # Absent} |-> f[k]]

(***************************************************************************)
(* extract_context_window                                                  *)
(***************************************************************************)
\* The alternative field names, in the order the loop tries them.
AliasKeysSwapped == <<"n_ctx", "n_positions", "max_seq_len", "max_sequence_length">>
AliasKeys == <<"n_positions", "n_ctx", "max_seq_len", "max_sequence_length">>

\* result = {...}: the four fields every record has.
BaseRecordWrongKey(cfg) ==
    [max_position_embeddings |-> Get(cfg, "max_position_embeddings", JNull),
     sliding_window |-> Get(cfg, "sliding_window", JNull),
     model_type |-> Get(cfg, "architectures", JNull),
     architectures |-> Get(cfg, "architectures", JList(<<>>))]
BaseRecord(cfg) ==
    [max_position_embeddings |-> Get(cfg, "max_position_embeddings", JNull),
     sliding_window |-> Get(cfg, "sliding_window", JNull),
     model_type |-> Get(cfg, "model_type", JNull),
     architectures |-> Get(cfg, "architectures", JList(<<>>))]

\* if result["max_position_embeddings"] is None
NeedsFallbackAlways(result) == TRUE
NeedsFallback(result) == result["max_position_embeddings"] = JNull

\* for key in [...]: if key in config: ...; break -- the index of the first
\* alias at or after position i that is a key of cfg, 0 when there is none.
RECURSIVE FirstAlias(_, _)
FirstAlias(cfg, i) ==
    IF i > Len(AliasKeys) THEN 0
    ELSE IF AliasKeys[i] \in DOMAIN cfg THEN i
    ELSE FirstAlias(cfg, i + 1)

\* The body of the loop for the alias found.
WithAlias(result, cfg) ==
    LET i == FirstAlias(cfg, 1) IN
    IF i = 0 THEN result
    ELSE ("source_field" :> JStr(AliasKeys[i]))
         @@ [result EXCEPT !["max_position_embeddings"] = cfg[AliasKeys[i]]]

\* if "rope_scaling" in config: result["rope_scaling"] = config["rope_scaling"]
WithRopeScalingIfSet(result, cfg) ==
    IF "rope_scaling" \in DOMAIN cfg /\ cfg["rope_scaling"] # JNull
    THEN ("rope_scaling" :> cfg["rope_scaling"]) @@ result
    ELSE result
WithRopeScaling(result, cfg) ==
    IF "rope_scaling" \in DOMAIN cfg
    THEN ("rope_scaling" :> cfg["rope_scaling"]) @@ result
    ELSE result

ExtractContextWindow(cfg) ==
    LET result == BaseRecord(cfg)
        aliased == IF NeedsFallback(result) THEN WithAlias(result, cfg) ELSE result
    IN  WithRopeScaling(aliased, cfg)

(***************************************************************************)
(* The Raw Configurations the extractor is applied to.                     *)
(***************************************************************************)
LengthVals == {Absent, JNull} \cup {JInt(n) : n \in 1..MaxVal}

RawConfigs ==
    { Present(f) : f \in
        [max_position_embeddings : LengthVals,
         n_positions : LengthVals,
         n_ctx : LengthVals,
         max_seq_len : LengthVals,
         max_sequence_length : LengthVals,
         sliding_window : {Absent, JInt(1)},
         model_type : {Absent, JStr("llama")},
         architectures : {Absent, JList(<<"LlamaForCausalLM">>)},
         rope_scaling : {Absent, JNull, JObject("linear")}] }

(***************************************************************************)
(* The network: what one HTTP GET can end in.                              *)
(***************************************************************************)
EmptyDict == [k \in {} |-> JNull]

\* Documents a config.json URL can hold: the primary field, an alias only,
\* and a configuration that itself has a top-level "error" key.
PlainDoc ==
    [max_position_embeddings |-> JInt(1), sliding_window |-> JInt(1),
     model_type |-> JStr("llama"),
     architectures |-> JList(<<"LlamaForCausalLM">>)]
AliasDoc == [n_ctx |-> JInt(2), model_type |-> JStr("gpt2")]
ErrorKeyDoc == [max_position_embeddings |-> JInt(1), error |-> JStr("nan loss")]
ConfigDocs == {PlainDoc, AliasDoc, ErrorKeyDoc}

\* Documents the hub API can answer with.
HubDoc ==
    [id |-> JStr("acme/modelA"), tags |-> JList(<<"context-32k">>),
     downloads |-> JInt(1)]
HubErrorKeyDoc == [id |-> JStr("acme/modelA"), error |-> JStr("gated")]
HubDocs == {HubDoc, HubErrorKeyDoc}

HttpCodes == {401, 404, 403, 500}
ExceptionKinds == {"network", "malformed_json"}

Outcomes(docs) ==
    {[kind |-> "ok", doc |-> d] : d \in docs}
    \cup {[kind |-> "http", code |-> c] : c \in HttpCodes}
    \cup {[kind |-> "exception", what |-> w] : w \in ExceptionKinds}

\* {"error": ...}
ErrorRecord(msg) == [error |-> msg]
\* f"HTTP error {e.code}: {e}"
HttpErrorMsg(code) == [t |-> "str", text |-> "HTTP error", code |-> code]
\* "Failed to fetch config from all URLs"
AllFailedMsg == [t |-> "str", text |-> "Failed to fetch config from all URLs"]
\* f"API error {e.code}: {e}"
ApiErrorMsg(code) == [t |-> "str", text |-> "API error", code |-> code]
\* f"Failed to fetch from API: {e}"
ApiFailedMsg(what) == [t |-> "str", text |-> "Failed to fetch from API", what |-> what]

(***************************************************************************)
(* fetch_huggingface_config                                                *)
(***************************************************************************)
\* urls, in the order of the list
urls == <<"raw", "resolve", "blob">>

\* The except clauses that end in "continue".
ContinuesNot404(o) ==
    \/ o.kind = "exception"
    \/ o.kind = "http" /\ o.code = 401
ContinuesAnyHttp(o) == o.kind \in {"exception", "http"}
Continues(o) ==
    \/ o.kind = "exception"
    \/ o.kind = "http" /\ o.code \in {401, 404}

\* Everything main and the scanner own, which the fetchers leave alone.
mainVars == <<argv, out, exitCode, started, extractorCalls, context_info,
              reextracted>>
scanVars == <<baseIdx, curPub, pubsSeen, modelsSeen, models, budget, visited>>
hubVars == <<hub_info, hubRequests, hubStatus>>
fetchVars == <<urlIdx, attempts, config, fetchStatus>>

\* One pass of "for url in urls": the request and what its outcome leads to.
FetchAttempt ==
    /\ pc = "fetch"
    /\ urlIdx <= Len(urls)
    /\ \E o \in Outcomes(ConfigDocs) :
          /\ attempts' = Append(attempts, [url |-> urls[urlIdx], outcome |-> o])
          /\ IF o.kind = "ok"
             THEN /\ config' = o.doc
                  /\ fetchStatus' = "ok"
                  /\ pc' = "fetched"
                  /\ UNCHANGED urlIdx
             ELSE IF Continues(o)
             THEN /\ urlIdx' = urlIdx + 1
                  /\ UNCHANGED <<config, fetchStatus, pc>>
             ELSE /\ config' = ErrorRecord(HttpErrorMsg(o.code))
                  /\ fetchStatus' = "failed"
                  /\ pc' = "fetched"
                  /\ UNCHANGED urlIdx
    /\ UNCHANGED <<mainVars, scanVars, hubVars>>

\* The loop ran out of urls.
FetchExhausted ==
    /\ pc = "fetch"
    /\ urlIdx > Len(urls)
    /\ config' = ErrorRecord(AllFailedMsg)
    /\ fetchStatus' = "failed"
    /\ pc' = "fetched"
    /\ UNCHANGED <<urlIdx, attempts, mainVars, scanVars, hubVars>>

(***************************************************************************)
(* fetch_hf_hub_api                                                        *)
(***************************************************************************)
HubRequest ==
    /\ pc = "hub"
    /\ hubRequests' = hubRequests + 1
    /\ \E o \in Outcomes(HubDocs) :
          CASE o.kind = "ok" ->
                  hub_info' = o.doc /\ hubStatus' = "ok"
            [] o.kind = "http" ->
                  hub_info' = ErrorRecord(ApiErrorMsg(o.code)) /\ hubStatus' = "failed"
            [] OTHER ->
                  hub_info' = ErrorRecord(ApiFailedMsg(o.what)) /\ hubStatus' = "failed"
    /\ pc' = "hubbed"
    /\ UNCHANGED <<mainVars, scanVars, fetchVars>>

(***************************************************************************)
(* find_lm_studio_models                                                   *)
(***************************************************************************)
\* lm_studio_paths, in the order of the list
lm_studio_paths == <<"cache", "dotdir", "appsupport">>

\* Names the directories can hold.
PubNames == {"acme", "zeta"}
ModelNames == {"modelA", "modelB"}

\* What an entry of a publisher directory can be: not a directory, a
\* directory without config.json, or one whose config.json parses, does not
\* parse (json.load raises) or cannot be read (open raises).
LocalEntries ==
    {[kind |-> "notdir"], [kind |-> "noconfig"],
     [kind |-> "malformed"], [kind |-> "unreadable"]}
    \cup {[kind |-> "valid", doc |-> d] : d \in {PlainDoc, AliasDoc}}

\* str(e) of the exception the try block caught
ReadErrorMsg(e) == [t |-> "str", text |-> e.kind]

\* The dict appended in the try block.
ConfigEntry(base, pub, model, doc) ==
    [id |-> <<pub, model>>, path |-> <<base, pub, model>>,
     config |-> ExtractContextWindow(doc)]
\* The dict appended in the except block.
ErrorEntry(base, pub, model, e) ==
    [id |-> <<pub, model>>, path |-> <<base, pub, model>>,
     error |-> ReadErrorMsg(e)]

\* models after the except block ran for one model directory.
OnReadFailureSkip(ms, entry) == ms
OnReadFailure(ms, entry) == Append(ms, entry)

\* models after the body of the innermost loop ran for one entry.
AfterModelDir(ms, base, pub, model, e) ==
    CASE e.kind \in {"notdir", "noconfig"} -> ms
      [] e.kind = "valid" -> Append(ms, ConfigEntry(base, pub, model, e.doc))
      [] OTHER -> OnReadFailure(ms, ErrorEntry(base, pub, model, e))

\* for base_path in lm_studio_paths: if not base_path.exists(): continue
ScanBase ==
    /\ pc = "scan_base"
    /\ baseIdx <= Len(lm_studio_paths)
    /\ \E exists \in BOOLEAN :
          IF exists
          THEN /\ pc' = "scan_pub"
               /\ pubsSeen' = {}
               /\ UNCHANGED baseIdx
          ELSE /\ baseIdx' = baseIdx + 1
               /\ UNCHANGED <<pc, pubsSeen>>
    /\ UNCHANGED <<curPub, modelsSeen, models, budget, visited>>
    /\ UNCHANGED <<mainVars, fetchVars, hubVars>>

\* return models
ScanReturn ==
    /\ pc = "scan_base"
    /\ baseIdx > Len(lm_studio_paths)
    /\ pc' = "scanned"
    /\ UNCHANGED <<scanVars, mainVars, fetchVars, hubVars>>

\* for publisher_dir in base_path.iterdir(): if not is_dir(): continue
ScanPublisher ==
    /\ pc = "scan_pub"
    /\ \/ /\ baseIdx' = baseIdx + 1
          /\ pc' = "scan_base"
          /\ pubsSeen' = {}
          /\ UNCHANGED <<curPub, modelsSeen, budget>>
       \/ /\ budget > 0
          /\ \E name \in PubNames \ pubsSeen, isDir \in BOOLEAN :
                /\ pubsSeen' = pubsSeen \cup {name}
                /\ IF isDir
                   THEN /\ curPub' = name
                        /\ modelsSeen' = {}
                        /\ pc' = "scan_model"
                   ELSE UNCHANGED <<curPub, modelsSeen, pc>>
          /\ budget' = budget - 1
          /\ UNCHANGED baseIdx
    /\ UNCHANGED <<models, visited, mainVars, fetchVars, hubVars>>

\* for model_dir in publisher_dir.iterdir(): the body of the innermost loop
ScanModel ==
    /\ pc = "scan_model"
    /\ \/ /\ pc' = "scan_pub"
          /\ modelsSeen' = {}
          /\ curPub' = ""
          /\ UNCHANGED <<models, budget, visited>>
       \/ /\ budget > 0
          /\ \E name \in ModelNames \ modelsSeen, e \in LocalEntries :
                /\ modelsSeen' = modelsSeen \cup {name}
                /\ models' = AfterModelDir(models, lm_studio_paths[baseIdx],
                                           curPub, name, e)
                /\ visited' = Append(visited,
                                     [base |-> lm_studio_paths[baseIdx],
                                      pub |-> curPub, model |-> name,
                                      entry |-> e])
          /\ budget' = budget - 1
          /\ UNCHANGED <<pc, curPub>>
    /\ UNCHANGED <<baseIdx, pubsSeen, mainVars, fetchVars, hubVars>>

(***************************************************************************)
(* main                                                                    *)
(***************************************************************************)
Commands == {"huggingface", "lmstudio", "context", "hub", "auto"}
ModelIds == {<<"acme", "modelA">>}

\* The command lines: nothing, a command alone, a command and a model id.
Argvs ==
    {<<>>}
    \cup {<<c>> : c \in Commands \cup {"bogus"}}
    \cup {<<c, m>> : c \in Commands \cup {"bogus"}, m \in ModelIds}

Line(text) == [line |-> text]
ErrorLine(text, msg) == [line |-> text, msg |-> msg]
ModelsLine(text, ms) == [line |-> text, models |-> ms]

\* sys.exit(code), or main returning (code 0)
Exit(code) == exitCode' = <<code>> /\ pc' = "exited"

\* The branches whose "if len(sys.argv) < 3" guards sys.argv[2].
ChecksModelIdNotHub(cmd) == cmd \in {"huggingface", "context", "auto"}
ChecksModelId(cmd) == cmd \in {"huggingface", "context", "hub", "auto"}

\* The branches that end in sys.exit(1) when the fetched dict has "error".
ExitsOnErrorAlways(cmd) == cmd \in {"huggingface", "context", "hub", "auto"}
ExitsOnError(cmd) == cmd \in {"huggingface", "context", "hub"}

\* if len(sys.argv) < 2: print the usage text; sys.exit(1)
MainNoCommand ==
    /\ pc = "main"
    /\ Len(argv) < 1
    /\ out' = Append(out, Line("usage"))
    /\ Exit(1)
    /\ UNCHANGED <<argv, started, extractorCalls, context_info, reextracted>>
    /\ UNCHANGED <<fetchVars, hubVars, scanVars>>

\* if len(sys.argv) < 3: print("Error: model_id required"); sys.exit(1)
MainMissingModelId ==
    /\ pc = "main"
    /\ Len(argv) >= 1
    /\ argv[1] \in Commands
    /\ ChecksModelId(argv[1])
    /\ Len(argv) < 2
    /\ out' = Append(out, Line("Error: model_id required"))
    /\ Exit(1)
    /\ UNCHANGED <<argv, started, extractorCalls, context_info, reextracted>>
    /\ UNCHANGED <<fetchVars, hubVars, scanVars>>

\* else: print(f"Unknown command: {command}"); sys.exit(1)
MainUnknownCommand ==
    /\ pc = "main"
    /\ Len(argv) >= 1
    /\ argv[1] \notin Commands
    /\ out' = Append(out, Line("Unknown command"))
    /\ Exit(1)
    /\ UNCHANGED <<argv, started, extractorCalls, context_info, reextracted>>
    /\ UNCHANGED <<fetchVars, hubVars, scanVars>>

\* The source a branch calls first, and what it prints before the call.
FirstSource(cmd) ==
    CASE cmd \in {"huggingface", "context", "auto"} -> "config_fetcher"
      [] cmd = "hub" -> "hub_api"
      [] OTHER -> "scanner"
EntryOf(source) ==
    CASE source = "config_fetcher" -> "fetch"
      [] source = "hub_api" -> "hub"
      [] OTHER -> "scan_base"
Banner(cmd) ==
    CASE cmd = "huggingface" -> <<Line("Fetching config")>>
      [] cmd = "lmstudio" -> <<Line("Scanning LM Studio models...")>>
      [] cmd = "context" -> <<>>
      [] cmd = "hub" -> <<Line("Fetching info")>>
      [] OTHER -> <<Line("Auto-fetching context window"), Line("1. Trying config.json")>>

\* A branch of main up to its first call. model_id = sys.argv[2] raises
\* IndexError when the argument is missing and no check ran before it: the
\* traceback goes to standard error and the process ends with status 1.
Enter(cmd) ==
    /\ Len(argv) >= 1
    /\ argv[1] = cmd
    /\ ~(ChecksModelId(cmd) /\ Len(argv) < 2)
    /\ IF cmd # "lmstudio" /\ Len(argv) < 2
       THEN /\ Exit(1)
            /\ UNCHANGED <<out, started>>
       ELSE /\ out' = out \o Banner(cmd)
            /\ started' = Append(started, FirstSource(cmd))
            /\ pc' = EntryOf(FirstSource(cmd))
            /\ UNCHANGED exitCode
    /\ UNCHANGED <<argv, extractorCalls, context_info, reextracted>>
    /\ UNCHANGED <<fetchVars, hubVars, scanVars>>

\* if command == "huggingface": ... config = fetch_huggingface_config(model_id)
MainHuggingface ==
    /\ pc = "main"
    /\ Enter("huggingface")

\* elif command == "lmstudio": ... models = find_lm_studio_models()
MainLmstudio ==
    /\ pc = "main"
    /\ Enter("lmstudio")

\* elif command == "context": ... config = fetch_huggingface_config(model_id)
MainContext ==
    /\ pc = "main"
    /\ Enter("context")

\* elif command == "hub": ... info = fetch_hf_hub_api(model_id)
MainHub ==
    /\ pc = "main"
    /\ Enter("hub")

\* elif command == "auto": ... config = fetch_huggingface_config(model_id)
MainAuto ==
    /\ pc = "main"
    /\ Enter("auto")

\* What main does with the dict fetch_huggingface_config returned; the
\* locals of the call are gone.
MainAfterFetch ==
    /\ pc = "fetched"
    /\ LET cmd == argv[1] IN
       IF "error" \in DOMAIN config
       THEN /\ UNCHANGED <<context_info, extractorCalls>>
            /\ IF ExitsOnError(cmd)
               THEN /\ out' = Append(out,
                              ErrorLine(IF cmd = "context" THEN "error json"
                                        ELSE "Error", config["error"]))
                    /\ Exit(1)
                    /\ UNCHANGED started
               ELSE /\ out' = out \o <<ErrorLine("1. failed", config["error"]),
                                      Line("2. Trying Hub API")>>
                    /\ started' = Append(started, "hub_api")
                    /\ pc' = "hub"
                    /\ UNCHANGED exitCode
       ELSE /\ context_info' = ExtractContextWindow(config)
            /\ extractorCalls' = extractorCalls + 1
            /\ IF cmd = "auto"
               THEN /\ out' = out \o <<[line |-> "1. Found config",
                                        record |-> context_info'],
                                      Line("2. Trying Hub API")>>
                    /\ started' = Append(started, "hub_api")
                    /\ pc' = "hub"
                    /\ UNCHANGED exitCode
               ELSE /\ out' = out \o
                              <<[line |-> "Model Configuration",
                                 record |-> context_info']>>
                              \o (IF cmd = "huggingface"
                                  THEN <<Line("Raw Config (relevant fields)")>>
                                  ELSE <<>>)
                    /\ Exit(0)
                    /\ UNCHANGED started
    /\ urlIdx' = 1
    /\ attempts' = <<>>
    /\ UNCHANGED <<argv, reextracted, config, fetchStatus, hubVars, scanVars>>

\* What main does with the dict fetch_hf_hub_api returned.
MainAfterHub ==
    /\ pc = "hubbed"
    /\ LET cmd == argv[1] IN
       IF "error" \in DOMAIN hub_info
       THEN IF ExitsOnError(cmd)
            THEN /\ out' = Append(out, ErrorLine("Error", hub_info["error"]))
                 /\ Exit(1)
                 /\ UNCHANGED started
            ELSE /\ out' = out \o <<ErrorLine("2. failed", hub_info["error"]),
                                   Line("3. Checking LM Studio")>>
                 /\ started' = Append(started, "scanner")
                 /\ pc' = "scan_base"
                 /\ UNCHANGED exitCode
       ELSE IF cmd = "auto"
            THEN /\ out' = out \o <<Line("2. Found model on Hub"),
                                   Line("3. Checking LM Studio")>>
                 /\ started' = Append(started, "scanner")
                 /\ pc' = "scan_base"
                 /\ UNCHANGED exitCode
            ELSE /\ out' = Append(out, Line("Hub result"))
                 /\ Exit(0)
                 /\ UNCHANGED started
    /\ UNCHANGED <<argv, extractorCalls, context_info, reextracted>>
    /\ UNCHANGED <<fetchVars, hubVars, scanVars>>

\* model_id.lower() in m['id'].lower() or in str(m['path']).lower(): on the
\* names of this model the identifier is contained exactly in the entries of
\* publisher/model directories of that name.
Matches(model_id, m) == m.id = model_id

\* What main does with the list find_lm_studio_models returned.
MainAfterScan ==
    /\ pc = "scanned"
    /\ IF argv[1] = "lmstudio"
       THEN out' = Append(out, IF models = <<>>
                               THEN Line("No LM Studio models found.")
                               ELSE ModelsLine("Found models", models))
       ELSE out' = Append(out,
                     LET matching == SelectSeq(models, LAMBDA m : Matches(argv[2], m))
                     IN  IF matching = <<>>
                         THEN Line("Not found in LM Studio")
                         ELSE ModelsLine("Found in LM Studio", matching))
    /\ Exit(0)
    /\ UNCHANGED <<argv, started, extractorCalls, context_info, reextracted>>
    /\ UNCHANGED <<fetchVars, hubVars, scanVars>>

(***************************************************************************)
(* The extractor on its own: applied to a configuration, then to its own   *)
(* result.                                                                 *)
(***************************************************************************)
ExtractOnce ==
    /\ pc = "extract"
    /\ context_info' = ExtractContextWindow(config)
    /\ pc' = "extracted"
    /\ UNCHANGED <<argv, out, exitCode, started, extractorCalls, reextracted>>
    /\ UNCHANGED <<fetchVars, hubVars, scanVars>>

ExtractAgain ==
    /\ pc = "extracted"
    /\ reextracted' = ExtractContextWindow(context_info)
    /\ pc' = "reextracted"
    /\ UNCHANGED <<argv, out, exitCode, started, extractorCalls, context_info>>
    /\ UNCHANGED <<fetchVars, hubVars, scanVars>>

(***************************************************************************)
(* Specifications.                                                         *)
(***************************************************************************)
InitLocals ==
    /\ exitCode = <<>>
    /\ extractorCalls = 0
    /\ urlIdx = 1
    /\ attempts = <<>>
    /\ fetchStatus = "none"
    /\ hub_info = EmptyDict
    /\ hubRequests = 0
    /\ hubStatus = "none"
    /\ context_info = EmptyDict
    /\ reextracted = EmptyDict
    /\ baseIdx = 1
    /\ curPub = ""
    /\ pubsSeen = {}
    /\ modelsSeen = {}
    /\ models = <<>>
    /\ visited = <<>>

\* The process, from the start of main.
Init ==
    /\ argv \in Argvs
    /\ pc = "main"
    /\ out = <<>>
    /\ started = <<>>
    /\ config = EmptyDict
    /\ budget = MaxEntriesMain
    /\ InitLocals

FetchNext == FetchAttempt \/ FetchExhausted
ScanNext == ScanBase \/ ScanReturn \/ ScanPublisher \/ ScanModel

Next ==
    \/ MainNoCommand \/ MainMissingModelId \/ MainUnknownCommand
    \/ MainHuggingface \/ MainLmstudio \/ MainContext \/ MainHub \/ MainAuto
    \/ FetchNext \/ HubRequest \/ ScanNext
    \/ MainAfterFetch \/ MainAfterHub \/ MainAfterScan

Spec == Init /\ [][Next]_vars

\* One call of find_lm_studio_models.
InitScan ==
    /\ argv = <<"lmstudio">>
    /\ pc = "scan_base"
    /\ out = Banner("lmstudio")
    /\ started = <<"scanner">>
    /\ config = EmptyDict
    /\ budget = MaxEntries
    /\ InitLocals

SpecScan == InitScan /\ [][ScanNext]_vars

\* extract_context_window on every Raw Configuration of RawConfigs.
InitExtract ==
    /\ argv = <<>>
    /\ pc = "extract"
    /\ out = <<>>
    /\ started = <<>>
    /\ config \in RawConfigs
    /\ budget = 0
    /\ InitLocals

ExtractNext == ExtractOnce \/ ExtractAgain

SpecExtract == InitExtract /\ [][ExtractNext]_vars

(***************************************************************************)
(* Properties.                                                             *)
(***************************************************************************)
Last(seq) == seq[Len(seq)]

\* A soft miss: HTTP 401, HTTP 404, or an exception that is no HTTP error.
SoftMiss(o) ==
    \/ o.kind = "exception"
    \/ o.kind = "http" /\ o.code \in {401, 404}
\* An HTTP error with any other status.
HardError(o) == o.kind = "http" /\ o.code \notin {401, 404}

InFetch == pc \in {"fetch", "fetched"}

\* C1: fetch_huggingface_config requests raw, resolve, blob in that order, a
\* URL only after every earlier one ended in a soft miss; the first URL whose
\* body parses ends the call with that document and nothing is requested
\* after it; three soft misses end the call with the Error Record
\* {"error": "Failed to fetch config from all URLs"}.
FetchOrderAndShortCircuit ==
    InFetch =>
        /\ Len(attempts) <= 3
        /\ \A i \in 1..Len(attempts) :
              /\ attempts[i].url = <<"raw", "resolve", "blob">>[i]
              /\ i < Len(attempts) => SoftMiss(attempts[i].outcome)
        /\ pc = "fetch" =>
              \A i \in 1..Len(attempts) : SoftMiss(attempts[i].outcome)
        /\ pc = "fetched" =>
              /\ Len(attempts) >= 1
              /\ Last(attempts).outcome.kind = "ok" =>
                    config = Last(attempts).outcome.doc
              /\ SoftMiss(Last(attempts).outcome) =>
                    /\ Len(attempts) = 3
                    /\ config = [error |-> [t |-> "str",
                          text |-> "Failed to fetch config from all URLs"]]

\* The call returned a document from the third URL after two soft misses.
FetchThirdUrlSucceeds ==
    /\ pc = "fetched"
    /\ Len(attempts) = 3
    /\ attempts[1].outcome.kind = "http"
    /\ attempts[2].outcome.kind = "exception"
    /\ attempts[3].outcome.kind = "ok"

\* C2: an HTTP error whose status is neither 401 nor 404 stops the call at
\* that URL: it is the last request of the call, whatever soft misses came
\* before, and the result is an Error Record naming that status.
HardErrorStopsFetch ==
    InFetch =>
        \A i \in 1..Len(attempts) :
            HardError(attempts[i].outcome) =>
                /\ i = Len(attempts)
                /\ pc = "fetched"
                /\ DOMAIN config = {"error"}
                /\ config["error"].text = "HTTP error"
                /\ config["error"].code = attempts[i].outcome.code

\* The second URL answered 500 after a soft miss of the first.
FetchHardErrorAfterSoftMiss ==
    /\ pc = "fetched"
    /\ Len(attempts) = 2
    /\ SoftMiss(attempts[1].outcome)
    /\ attempts[2].outcome = [kind |-> "http", code |-> 500]

SingleSource == {"huggingface", "context", "hub"}
\* Whether the fetch of a single-source command failed.
SourceFailed ==
    IF argv[1] = "hub" THEN hubStatus = "failed" ELSE fetchStatus = "failed"
PrintedError == \E i \in 1..Len(out) : out[i].line \in {"Error", "error json"}
PrintedConfiguration ==
    \E i \in 1..Len(out) : out[i].line \in {"Model Configuration", "Hub result"}

\* C3: a single-source command given a model identifier exits with status 1
\* if the fetch fails and with status 0 otherwise; on failure the error is
\* printed, the Context Extractor is not invoked and no configuration output
\* is printed.
SingleSourceExitStatus ==
    (pc = "exited" /\ Len(argv) >= 2 /\ argv[1] \in SingleSource) =>
        /\ SourceFailed => exitCode = <<1>>
        /\ ~SourceFailed => exitCode = <<0>>
        /\ SourceFailed =>
              PrintedError /\ extractorCalls = 0 /\ ~PrintedConfiguration

Extracted == pc \in {"extracted", "reextracted"}
ClaimAliases == <<"n_positions", "n_ctx", "max_seq_len", "max_sequence_length">>
AliasPresent(cfg) == \E i \in 1..4 : ClaimAliases[i] \in DOMAIN cfg

\* C4 as stated: for every Raw Configuration with the key
\* max_position_embeddings, whatever its value (a JSON null included) and
\* whatever aliases are present, the record's max_position_embeddings is the
\* input's value and the record has no source_field.
PrimaryKeyAlwaysWins ==
    (Extracted /\ "max_position_embeddings" \in DOMAIN config) =>
        /\ context_info["max_position_embeddings"] = config["max_position_embeddings"]
        /\ "source_field" \notin DOMAIN context_info

\* C4 amended: the same for every Raw Configuration whose
\* max_position_embeddings is not null, or is null with no alias key present.
PrimaryKeyWinsUnlessNull ==
    (/\ Extracted
     /\ "max_position_embeddings" \in DOMAIN config
     /\ \/ config["max_position_embeddings"] # JNull
        \/ ~AliasPresent(config)) =>
        /\ context_info["max_position_embeddings"] = config["max_position_embeddings"]
        /\ "source_field" \notin DOMAIN context_info

\* A configuration with a non-null primary value and aliases was extracted.
PrimaryKeyWithAliasesExtracted ==
    /\ Extracted
    /\ "max_position_embeddings" \in DOMAIN config
    /\ config["max_position_embeddings"] = JInt(1)
    /\ "n_positions" \in DOMAIN config
    /\ "n_ctx" \in DOMAIN config
    /\ config["n_ctx"] = JInt(2)

\* C5: without max_position_embeddings and with at least one alias key, the
\* record's max_position_embeddings is the value of the first alias present
\* in the order n_positions, n_ctx, max_seq_len, max_sequence_length and
\* source_field is that alias's name, whatever the later aliases hold.
FirstAliasWins ==
    (/\ Extracted
     /\ "max_position_embeddings" \notin DOMAIN config
     /\ AliasPresent(config)) =>
        \E i \in 1..4 :
            /\ ClaimAliases[i] \in DOMAIN config
            /\ \A j \in 1..(i - 1) : ClaimAliases[j] \notin DOMAIN config
            /\ context_info["max_position_embeddings"] = config[ClaimAliases[i]]
            /\ "source_field" \in DOMAIN context_info
            /\ context_info["source_field"] = JStr(ClaimAliases[i])

\* n_positions and n_ctx are both present, with different values.
BothAliasesExtracted ==
    /\ Extracted
    /\ "max_position_embeddings" \notin DOMAIN config
    /\ "n_positions" \in DOMAIN config
    /\ "n_ctx" \in DOMAIN config
    /\ config["n_positions"] # config["n_ctx"]
    /\ "max_sequence_length" \in DOMAIN config

\* C6 as stated: the extractor applied to its own result yields a record
\* equal to that result on every key of the result, source_field and
\* rope_scaling included.
ExtractIdempotentOnAllKeys ==
    pc = "reextracted" =>
        \A k \in DOMAIN context_info :
            k \in DOMAIN reextracted /\ reextracted[k] = context_info[k]

\* C6 amended: equal on every key of the result other than source_field.
ExtractIdempotentButSourceField ==
    pc = "reextracted" =>
        \A k \in DOMAIN context_info \ {"source_field"} :
            k \in DOMAIN reextracted /\ reextracted[k] = context_info[k]

\* A result with source_field and rope_scaling was extracted again.
AliasedResultReextracted ==
    /\ pc = "reextracted"
    /\ "source_field" \in DOMAIN context_info
    /\ "rope_scaling" \in DOMAIN context_info
    /\ "architectures" \notin DOMAIN config

\* C10: the record's keys are max_position_embeddings, sliding_window,
\* model_type, architectures, plus rope_scaling exactly when it is a key of
\* the input (with the input's value), plus source_field exactly when the
\* input's max_position_embeddings is missing or null and an alias key is
\* present; with source_field, max_position_embeddings is the input's value
\* under the key it names.
RecordKeySet ==
    Extracted =>
        LET fallback ==
                /\ \/ "max_position_embeddings" \notin DOMAIN config
                   \/ config["max_position_embeddings"] = JNull
                /\ AliasPresent(config)
        IN  /\ DOMAIN context_info =
                  {"max_position_embeddings", "sliding_window", "model_type",
                   "architectures"}
                  \cup (IF "rope_scaling" \in DOMAIN config
                        THEN {"rope_scaling"} ELSE {})
                  \cup (IF fallback THEN {"source_field"} ELSE {})
            /\ "rope_scaling" \in DOMAIN config =>
                  context_info["rope_scaling"] = config["rope_scaling"]
            /\ fallback =>
                  /\ context_info["source_field"].s \in DOMAIN config
                  /\ context_info["max_position_embeddings"] =
                        config[context_info["source_field"].s]

\* A null rope_scaling and a null max_position_embeddings with an alias.
NullFieldsExtracted ==
    /\ Extracted
    /\ "rope_scaling" \in DOMAIN config
    /\ config["rope_scaling"] = JNull
    /\ "max_position_embeddings" \in DOMAIN config
    /\ config["max_position_embeddings"] = JNull
    /\ "max_seq_len" \in DOMAIN config

\* The visited entries that hold a config.json, and those that fail to load.
HasConfig(v) == v.entry.kind \in {"valid", "malformed", "unreadable"}
Fails(v) == v.entry.kind \in {"malformed", "unreadable"}
WithConfig(vs) == SelectSeq(vs, HasConfig)

\* The list the scan builds over the entries vs.
RECURSIVE ScanOf(_)
ScanOf(vs) ==
    IF vs = <<>> THEN <<>>
    ELSE LET v == Last(vs)
         IN  AfterModelDir(ScanOf(SubSeq(vs, 1, Len(vs) - 1)),
                           v.base, v.pub, v.model, v.entry)

\* The entries vs with the config.json of the i-th one parsing correctly.
AsIfParsed(vs, i) ==
    [vs EXCEPT ![i].entry = [kind |-> "valid", doc |-> PlainDoc]]

\* One Local Model Entry per directory with a config.json, in order, with id
\* publisher/model and either a config or an error, never both.
OneEntryEach(ms, vs) ==
    /\ Len(ms) = Len(WithConfig(vs))
    /\ \A k \in 1..Len(ms) :
          LET v == WithConfig(vs)[k]
          IN  /\ ms[k].id = <<v.pub, v.model>>
              /\ IF Fails(v)
                 THEN "error" \in DOMAIN ms[k] /\ "config" \notin DOMAIN ms[k]
                 ELSE "config" \in DOMAIN ms[k] /\ "error" \notin DOMAIN ms[k]

\* The entries of the other directories are those of the scan in which the
\* failing directory parsed correctly.
OthersUnaffected(ms, vs) ==
    \A i \in 1..Len(vs) :
        Fails(vs[i]) =>
            LET alt == ScanOf(AsIfParsed(vs, i))
                k == Len(WithConfig(SubSeq(vs, 1, i)))
            IN  /\ Len(alt) = Len(ms)
                /\ \A j \in 1..Len(ms) : j # k => ms[j] = alt[j]

\* A step that handles a model-level entry leaves the loops where they are,
\* and the scan returns only after the last base directory.
ScanGoesOn ==
    /\ Len(visited') > Len(visited) =>
          /\ pc' = "scan_model"
          /\ baseIdx' = baseIdx
          /\ curPub' = curPub
          /\ Len(models') >= Len(models)
          /\ SubSeq(models', 1, Len(models)) = models
    /\ pc' = "scanned" => baseIdx' = 4

\* C7: a config.json that cannot be read or parsed affects only the entry of
\* its own directory: the scan goes on over the remaining directories, every
\* directory with a config.json contributes exactly one entry (id
\* publisher/model, a config or an error, never both), and the other entries
\* are those of the scan in which the failing directory parsed correctly.
ScanIsolatesFailures ==
    [][/\ ScanGoesOn
       /\ OneEntryEach(models', visited')
       /\ OthersUnaffected(models', visited')]_vars

\* A scan that met a failing directory and, in a later base directory, a
\* valid one, has returned.
ScanPastFailureReturned ==
    /\ pc = "scanned"
    /\ \E i, j \in 1..Len(visited) :
          /\ i < j
          /\ Fails(visited[i])
          /\ visited[j].entry.kind = "valid"
          /\ visited[i].base # visited[j].base

\* The invocations that are usage errors.
NeedModelId == {"huggingface", "hub", "context", "auto"}
UsageError ==
    \/ Len(argv) = 0
    \/ argv[1] \notin {"huggingface", "hub", "lmstudio", "context", "auto"}
    \/ argv[1] \in NeedModelId /\ Len(argv) < 2
NothingStarted ==
    /\ pc \in {"main", "exited"}
    /\ started = <<>>
    /\ attempts = <<>>
    /\ fetchStatus = "none"
    /\ hubRequests = 0
    /\ hubStatus = "none"
    /\ visited = <<>>
    /\ models = <<>>
    /\ extractorCalls = 0

\* C8 as stated: with no command, an unrecognized command or a missing model
\* identifier, the usage text is printed and the process exits with status 1
\* and no fetcher, hub client or scanner operation is started.
UsageErrorPrintsUsage ==
    UsageError =>
        /\ NothingStarted
        /\ pc = "exited" => exitCode = <<1>> /\ out = <<[line |-> "usage"]>>

\* C8 amended: the message printed is the usage text with no command,
\* "Unknown command: <command>" for an unrecognized command and
\* "Error: model_id required" for a missing model identifier.
UsageErrorPrintsItsMessage ==
    UsageError =>
        /\ NothingStarted
        /\ pc = "exited" =>
              /\ exitCode = <<1>>
              /\ out = << [line |->
                            IF Len(argv) = 0 THEN "usage"
                            ELSE IF argv[1] \in NeedModelId
                            THEN "Error: model_id required"
                            ELSE "Unknown command"] >>

\* hub without a model identifier has exited.
HubWithoutModelIdExited ==
    /\ pc = "exited"
    /\ argv = <<"hub">>
    /\ out # <<>>

AutoSources == <<"config_fetcher", "hub_api", "scanner">>

\* C9: auto with a model identifier starts the Config Fetcher, then the Hub
\* API Client, then the Local Model Scanner, each after the one before it
\* finished and whatever that one returned, and the process ends with
\* status 0.
AutoRunsAllSourcesInOrder ==
    (Len(argv) >= 2 /\ argv[1] = "auto") =>
        /\ Len(started) <= 3
        /\ started = SubSeq(AutoSources, 1, Len(started))
        /\ pc = "main" <=> started = <<>>
        /\ Len(started) = 1 <=> pc \in {"fetch", "fetched"}
        /\ Len(started) = 2 <=> pc \in {"hub", "hubbed"}
        /\ Len(started) >= 2 => fetchStatus \in {"ok", "failed"}
        /\ Len(started) >= 3 => hubStatus \in {"ok", "failed"}
        /\ pc = "exited" => exitCode = <<0>> /\ Len(started) = 3

\* auto has ended after both fetches returned an Error Record.
AutoEndedAfterFailures ==
    /\ pc = "exited"
    /\ Len(argv) >= 2
    /\ argv[1] = "auto"
    /\ fetchStatus = "failed"
    /\ hubStatus = "failed"
    /\ "error" \in DOMAIN config

====
